---- MODULE Spec2Model ----
(***************************************************************************)
(* Model of backend/app.py: the /api/ask handler and the three stages it   *)
(* sequences (google_search, filter_results_by_similarity,                 *)
(* ask_gemini_with_context).  One action per outbound provider call, each  *)
(* including the handler code that runs up to the next outbound call.      *)
(*                                                                         *)
(* Numbers: a cosine similarity dot/(|a||b|) is kept exactly as the pair   *)
(* <<dot, |a|^2 * |b|^2>>, read as dot / sqrt(second component); a second  *)
(* component of 0 is the NaN that 0/0 produces.  Thresholds use the same   *)
(* representation (0.3 = 3/sqrt(100)).  Floating-point rounding is not     *)
(* modelled.                                                               *)
(***************************************************************************)
EXTENDS Integers, Sequences, FiniteSets, TLC

VARIABLES api_key, engine_id, pc, entry, data, search_results, threshold,
          question_embedding, idx, filtered_results, curated_results,
          calls, response

vars == <<api_key, engine_id, pc, entry, data, search_results, threshold,
          question_embedding, idx, filtered_results, curated_results,
          calls, response>>

\* Largest number of results the search provider returns in the model.
MaxResults == 3

\* num_results=10 passed by ask() to google_search.
NumResults == 10

\* Embedding vectors the provider may return (fixed dimensionality 2).
Vectors == {<<1, 0>>, <<0, 1>>, <<1, 1>>, <<2, 0>>, <<-1, 0>>, <<0, 0>>}

\* get_embedding returns None on provider error; None is the empty tuple.
None == <<>>

EmbedOutcomes == Vectors \cup {None}

\* threshold=0.3, the default of the filter and the value ask() passes.
DefaultThreshold == <<3, 100>>

\* Thresholds a direct caller of the filter may pass: -0.5, 0, 0.3, 1.
Thresholds == {<<-1, 4>>, <<0, 1>>, DefaultThreshold, <<1, 1>>}

Min(a, b) == IF a <= b THEN a ELSE b

----------------------------------------------------------------------------
(* cosine_similarity and float comparison *)

RECURSIVE Dot(_, _)
Dot(vec1, vec2) ==
    IF vec1 = <<>> THEN 0
    ELSE Head(vec1) * Head(vec2) + Dot(Tail(vec1), Tail(vec2))

cosine_similarity(vec1, vec2) ==
    <<Dot(vec1, vec2), Dot(vec1, vec1) * Dot(vec2, vec2)>>

IsNaN(s) == s[2] = 0

SignedSquare(d) == IF d < 0 THEN -(d * d) ELSE d * d

\* a >= b on floats; any comparison with NaN is false.
FloatGE(a, b) ==
    /\ ~IsNaN(a)
    /\ ~IsNaN(b)
    /\ SignedSquare(a[1]) * b[2] >= SignedSquare(b[1]) * a[2]

\* a < b on floats; any comparison with NaN is false.
FloatLT(a, b) ==
    /\ ~IsNaN(a)
    /\ ~IsNaN(b)
    /\ SignedSquare(a[1]) * b[2] < SignedSquare(b[1]) * a[2]

----------------------------------------------------------------------------
(* request bodies and responses *)

\* A JSON object is a set of <<key, value>> pairs.
Bodies ==
    { [json |-> "null",   obj |-> {}],
      [json |-> "object", obj |-> {}],
      [json |-> "object", obj |-> {<<"question", "">>}],
      [json |-> "object", obj |-> {<<"question", "q">>}] }

\* dict.get(key, default)
Get(obj, key, default) ==
    IF \E p \in obj : p[1] = key
    THEN (CHOOSE p \in obj : p[1] = key)[2]
    ELSE default

FalsyM(question) == FALSE

\* `not question`
Falsy(question) == question = ""

CredentialsMissingM(key, engine) == key = "" /\ engine = ""

\* `not GOOGLE_SEARCH_API_KEY or not GOOGLE_SEARCH_ENGINE_ID`
CredentialsMissing(key, engine) == key = "" \/ engine = ""

NoResponse == [status |-> 0, body |-> [pending |-> TRUE]]

ValidationResponse == [status |-> 400, body |-> [error |-> "question required"]]

DegradedResponse ==
    [status |-> 200,
     body |-> [error |-> "search credentials required",
               answer |-> "(test without search API)",
               sources |-> <<>>]]

ErrorResponseM(e) == [status |-> 500, body |-> [error |-> e, sources |-> <<>>]]

\* the except clause of ask()
ErrorResponse(e) == [status |-> 500, body |-> [error |-> e]]

AnswerPayloadM(answer, curated, found) ==
    [status |-> 200,
     body |-> [answer |-> answer, sources |-> curated,
               total_found |-> Len(curated), filtered_count |-> Len(found)]]

\* the success jsonify of ask()
AnswerPayload(answer, curated, found) ==
    [status |-> 200,
     body |-> [answer |-> answer, sources |-> curated,
               total_found |-> Len(found), filtered_count |-> Len(curated)]]

----------------------------------------------------------------------------
(* outbound calls *)

\* One entry per outbound call: the provider API, the text sent (0: the
\* question, i: title+snippet of the result of search rank i), whether the
\* provider answered, and the vector an embedding call returned.
Call(api, text, ok, value) ==
    [api |-> api, text |-> text, ok |-> ok, value |-> value]

\* The list google_search builds from n provider items.
SearchResults(n) == [i \in 1..n |-> [id |-> i]]

HasScore(result) == "similarity_score" \in DOMAIN result

----------------------------------------------------------------------------
(* filter_results_by_similarity helpers *)

QuestionFallbackM(results) == <<>>

\* `return search_results` when the question embedding is None
QuestionFallback(results) == results

KeepM(similarity, thr) == TRUE

\* `similarity >= threshold`
Keep(similarity, thr) == FloatGE(similarity, thr)

AfterFailureM(i, n) == n + 1

\* `continue` after a failed result embedding: on to the next result
AfterFailure(i, n) == i + 1

LoopDoneM(i, n) == i >= n

\* the for loop over search_results is exhausted
LoopDone(i, n) == i > n

RECURSIVE InsertDesc(_, _)
\* Place x before the first element whose score is lower than x's.
InsertDesc(sorted, x) ==
    IF sorted = <<>> THEN <<x>>
    ELSE IF FloatLT(Head(sorted).similarity_score, x.similarity_score)
         THEN <<x>> \o sorted
         ELSE <<Head(sorted)>> \o InsertDesc(Tail(sorted), x)

RECURSIVE InsertAsc(_, _)
InsertAsc(sorted, x) ==
    IF sorted = <<>> THEN <<x>>
    ELSE IF FloatLT(x.similarity_score, Head(sorted).similarity_score)
         THEN <<x>> \o sorted
         ELSE <<Head(sorted)>> \o InsertAsc(Tail(sorted), x)

RECURSIVE SortAsc(_)
SortAsc(results) ==
    IF results = <<>> THEN <<>>
    ELSE InsertAsc(SortAsc(SubSeq(results, 1, Len(results) - 1)),
                   results[Len(results)])

Reverse(s) == [i \in 1..Len(s) |-> s[Len(s) + 1 - i]]

\* sorted(...) ascending, then reversed: descending but ties swapped
SortM(results) == Reverse(SortAsc(results))

RECURSIVE Sort(_)
\* list.sort(key=similarity_score, reverse=True): stable, descending
Sort(results) ==
    IF results = <<>> THEN <<>>
    ELSE InsertDesc(Sort(SubSeq(results, 1, Len(results) - 1)),
                    results[Len(results)])

\* Where control goes when the filter returns.
AfterFilter == IF entry = "ask" THEN "compose" ELSE "done"

----------------------------------------------------------------------------
Init ==
    /\ api_key \in {"", "key"}
    /\ engine_id \in {"", "cx"}
    /\ pc = "idle"
    /\ entry = "none"
    /\ data = [json |-> "null", obj |-> {}]
    /\ search_results = <<>>
    /\ threshold = DefaultThreshold
    /\ question_embedding = None
    /\ idx = 1
    /\ filtered_results = <<>>
    /\ curated_results = <<>>
    /\ calls = <<>>
    /\ response = NoResponse

Idle == pc \in {"idle", "done"}

\* ask(), lines 178-191: parse, validate, check credentials.
AskReceive(d) ==
    /\ Idle
    /\ entry' = "ask"
    /\ data' = d
    /\ search_results' = <<>>
    /\ threshold' = DefaultThreshold
    /\ question_embedding' = None
    /\ idx' = 1
    /\ filtered_results' = <<>>
    /\ curated_results' = <<>>
    /\ calls' = <<>>
    /\ IF d.json = "null"
       THEN /\ response' = ErrorResponse("AttributeError")
            /\ pc' = "done"
       ELSE IF Falsy(Get(d.obj, "question", ""))
       THEN /\ response' = ValidationResponse
            /\ pc' = "done"
       ELSE IF CredentialsMissing(api_key, engine_id)
       THEN /\ response' = DegradedResponse
            /\ pc' = "done"
       ELSE /\ response' = NoResponse
            /\ pc' = "search"
    /\ UNCHANGED <<api_key, engine_id>>

\* ask(), lines 195-200, with google_search: one search call.
GoogleSearch ==
    /\ pc = "search"
    /\ \/ /\ calls' = Append(calls, Call("search", 0, FALSE, None))
          /\ response' = ErrorResponse("HttpError")
          /\ pc' = "done"
          /\ UNCHANGED search_results
       \/ \E n \in 0..Min(MaxResults, NumResults) :
            /\ calls' = Append(calls, Call("search", 0, TRUE, None))
            /\ search_results' = SearchResults(n)
            /\ pc' = "embed_question"
            /\ UNCHANGED response
    /\ UNCHANGED <<api_key, engine_id, entry, data, threshold,
                   question_embedding, idx, filtered_results, curated_results>>

\* A direct call of filter_results_by_similarity(question, results, thr).
CallFilter(n, thr) ==
    /\ Idle
    /\ entry' = "filter"
    /\ data' = [json |-> "object", obj |-> {<<"question", "q">>}]
    /\ search_results' = SearchResults(n)
    /\ threshold' = thr
    /\ question_embedding' = None
    /\ idx' = 1
    /\ filtered_results' = <<>>
    /\ curated_results' = <<>>
    /\ calls' = <<>>
    /\ response' = NoResponse
    /\ pc' = "embed_question"
    /\ UNCHANGED <<api_key, engine_id>>

\* filter_results_by_similarity, lines 100-104 (and 121-123 when there is
\* nothing to loop over).
EmbedQuestion ==
    /\ pc = "embed_question"
    /\ \E e \in EmbedOutcomes :
        /\ calls' = Append(calls, Call("embed", 0, e # None, e))
        /\ question_embedding' = e
        /\ IF e = None
           THEN /\ curated_results' = QuestionFallback(search_results)
                /\ pc' = AfterFilter
           ELSE IF LoopDone(1, Len(search_results))
           THEN /\ curated_results' = Sort(<<>>)
                /\ pc' = AfterFilter
           ELSE /\ pc' = "embed_result"
                /\ UNCHANGED curated_results
    /\ idx' = 1
    /\ filtered_results' = <<>>
    /\ UNCHANGED <<api_key, engine_id, entry, data, search_results, threshold,
                   response>>

\* One iteration of the loop, lines 106-118, and lines 121-123 after the
\* last one.
EmbedResult ==
    /\ pc = "embed_result"
    /\ \E e \in EmbedOutcomes :
        LET similarity == cosine_similarity(question_embedding, e)
            scored == [id |-> search_results[idx].id,
                       similarity_score |-> similarity]
            results2 == IF e = None THEN search_results
                        ELSE [search_results EXCEPT ![idx] = scored]
            filtered2 == IF e # None /\ Keep(similarity, threshold)
                         THEN Append(filtered_results, scored)
                         ELSE filtered_results
            next == IF e = None THEN AfterFailure(idx, Len(search_results))
                    ELSE idx + 1
        IN  /\ calls' = Append(calls, Call("embed", search_results[idx].id,
                                            e # None, e))
            /\ search_results' = results2
            /\ filtered_results' = filtered2
            /\ idx' = next
            /\ IF LoopDone(next, Len(search_results))
               THEN /\ curated_results' = Sort(filtered2)
                    /\ pc' = AfterFilter
               ELSE /\ UNCHANGED curated_results
                    /\ pc' = "embed_result"
    /\ UNCHANGED <<api_key, engine_id, entry, data, threshold,
                   question_embedding, response>>

\* ask(), lines 214-222, with ask_gemini_with_context: the context loop
\* reads result['similarity_score'] of every curated result, then one
\* generation call.
Compose ==
    /\ pc = "compose"
    /\ IF \E i \in 1..Len(curated_results) : ~HasScore(curated_results[i])
       THEN /\ response' = ErrorResponse("KeyError")
            /\ UNCHANGED calls
       ELSE \/ /\ calls' = Append(calls, Call("generate", 0, TRUE, None))
               /\ response' = AnswerPayload("text", curated_results,
                                            search_results)
            \/ /\ calls' = Append(calls, Call("generate", 0, FALSE, None))
               /\ response' = ErrorResponse("APIError")
    /\ pc' = "done"
    /\ UNCHANGED <<api_key, engine_id, entry, data, search_results, threshold,
                   question_embedding, idx, filtered_results, curated_results>>

Next ==
    \/ \E d \in Bodies : AskReceive(d)
    \/ GoogleSearch
    \/ \E n \in 0..MaxResults, thr \in Thresholds : CallFilter(n, thr)
    \/ EmbedQuestion
    \/ EmbedResult
    \/ Compose

Spec == Init /\ [][Next]_vars

----------------------------------------------------------------------------
(* vocabulary of the properties *)

Question == Get(data.obj, "question", "")

\* The request reached the pipeline: a JSON object with a non-empty
\* question, and both search credentials configured.
InPipeline ==
    /\ entry = "ask"
    /\ data.json = "object"
    /\ Question # ""
    /\ api_key # ""
    /\ engine_id # ""

\* filter_results_by_similarity has returned curated_results.
FilterReturned ==
    \/ entry = "filter" /\ pc = "done"
    \/ entry = "ask" /\ pc = "compose"

CallsOf(api) == {i \in 1..Len(calls) : calls[i].api = api}

FailedCalls(api) == {i \in CallsOf(api) : ~calls[i].ok}

EmbedCallsFor(text) == {i \in CallsOf("embed") : calls[i].text = text}

SameFloat(a, b) == FloatGE(a, b) /\ FloatGE(b, a)

Ids(results) == {results[i].id : i \in 1..Len(results)}

\* The calls a request makes when nothing stops it: search, the question
\* embedding, one embedding per result in rank order if the question
\* embedding succeeded, generation.
ExpectedCalls ==
    LET n == Len(search_results)
        questionOk == Len(calls) >= 2 /\ calls[2].ok
        perResult == IF questionOk
                     THEN [k \in 1..n |-> [api |-> "embed", text |-> k]]
                     ELSE <<>>
    IN  <<[api |-> "search", text |-> 0], [api |-> "embed", text |-> 0]>>
        \o perResult \o <<[api |-> "generate", text |-> 0]>>

----------------------------------------------------------------------------
(* properties *)

\* C1: a request whose JSON object has an empty question, or no question
\* field, is answered 400 with the validation error and makes no outbound
\* call at any point.
C1_EmptyQuestionRejected ==
    (entry = "ask" /\ data.json = "object" /\ Question = "")
        => /\ pc = "done"
           /\ response.status = 400
           /\ DOMAIN response.body = {"error"}
           /\ calls = <<>>

C1_Witness ==
    /\ entry = "ask"
    /\ data.json = "object"
    /\ data.obj = {}
    /\ response.status = 400
    /\ api_key # ""
    /\ engine_id # ""

\* C2: a non-empty question with the API key or the engine id absent is
\* answered 200 with a non-empty error, an explanatory answer and empty
\* sources, and makes no outbound call.
C2_MissingCredentialsDegraded ==
    (entry = "ask" /\ data.json = "object" /\ Question # ""
     /\ (api_key = "" \/ engine_id = ""))
        => /\ pc = "done"
           /\ response.status = 200
           /\ DOMAIN response.body = {"error", "answer", "sources"}
           /\ response.body.error # ""
           /\ response.body.answer # ""
           /\ response.body.sources = <<>>
           /\ calls = <<>>

C2_Witness ==
    /\ entry = "ask"
    /\ Question # ""
    /\ api_key # ""
    /\ engine_id = ""
    /\ response.status = 200

\* C3: when the question embedding fails while search succeeded and
\* generation did not fail, the finished request is answered 200 with an
\* AnswerPayload whose sources are all the search results in rank order.
C3_EmbeddingFailureDegradesGracefully ==
    (/\ entry = "ask"
     /\ pc = "done"
     /\ CallsOf("search") # {}
     /\ FailedCalls("search") = {}
     /\ EmbedCallsFor(0) # {}
     /\ question_embedding = None
     /\ FailedCalls("generate") = {})
        => /\ response.status = 200
           /\ "sources" \in DOMAIN response.body
           /\ response.body.sources = SearchResults(Len(search_results))

\* C4 as stated: whatever the embedding outcomes, every returned result
\* carries a similarity_score >= threshold.
C4_AllReturnedScoredAboveThreshold ==
    FilterReturned
        => \A i \in 1..Len(curated_results) :
              /\ HasScore(curated_results[i])
              /\ FloatGE(curated_results[i].similarity_score, threshold)

\* C4 amended: when the question embedding succeeds, every returned result
\* carries a similarity_score >= threshold.
C4_ScoredAboveThresholdWhenQuestionEmbedded ==
    (FilterReturned /\ question_embedding # None)
        => \A i \in 1..Len(curated_results) :
              /\ HasScore(curated_results[i])
              /\ FloatGE(curated_results[i].similarity_score, threshold)

C4_Witness ==
    /\ FilterReturned
    /\ question_embedding # None
    /\ threshold = <<1, 1>>
    /\ Len(curated_results) >= 1
    /\ \E i \in 1..Len(search_results) :
          /\ HasScore(search_results[i])
          /\ ~IsNaN(search_results[i].similarity_score)
          /\ search_results[i].id \notin Ids(curated_results)

\* C5: when the question embedding succeeds, the returned list is in
\* descending score order and results with equal scores keep their input
\* order.
C5_DescendingStable ==
    (FilterReturned /\ question_embedding # None)
        => \A i, j \in 1..Len(curated_results) :
              i < j =>
                /\ FloatGE(curated_results[i].similarity_score,
                           curated_results[j].similarity_score)
                /\ SameFloat(curated_results[i].similarity_score,
                             curated_results[j].similarity_score)
                      => curated_results[i].id < curated_results[j].id

C5_Witness ==
    /\ FilterReturned
    /\ question_embedding # None
    /\ Len(curated_results) = 3
    /\ curated_results # filtered_results
    /\ \E i, j \in 1..3 :
          /\ i < j
          /\ SameFloat(curated_results[i].similarity_score,
                       curated_results[j].similarity_score)
          /\ curated_results[i].similarity_score
                # curated_results[j].similarity_score

\* C6: when the question embedding fails, the filter returns exactly its
\* input, in order, with no score attached and nothing modified, after a
\* single embedding call (the question's).
C6_FallbackReturnsInputUntouched ==
    (FilterReturned /\ question_embedding = None)
        => /\ curated_results = SearchResults(Len(search_results))
           /\ search_results = SearchResults(Len(search_results))
           /\ CallsOf("embed") = EmbedCallsFor(0)
           /\ Cardinality(CallsOf("embed")) = 1

C6_Witness ==
    /\ FilterReturned
    /\ question_embedding = None
    /\ Len(curated_results) >= 2

\* C7: when the question embedding succeeds, every result is embedded
\* exactly once; a result whose embedding failed is absent from the
\* output, and every other result is present, with the cosine of the
\* question vector and its own vector as score, iff that score is >=
\* threshold -- whatever happened to the other results.
C7_ResultFailureIsLocal ==
    (FilterReturned /\ question_embedding # None)
        => \A r \in 1..Len(search_results) :
              /\ Cardinality(EmbedCallsFor(r)) = 1
              /\ LET c == calls[CHOOSE i \in EmbedCallsFor(r) : TRUE]
                     score == cosine_similarity(question_embedding, c.value)
                     kept == {i \in 1..Len(curated_results) :
                                 curated_results[i].id = r}
                 IN  IF ~c.ok
                     THEN kept = {}
                     ELSE /\ kept # {} <=> FloatGE(score, threshold)
                          /\ \A i \in kept :
                                curated_results[i].similarity_score = score

C7_Witness ==
    /\ FilterReturned
    /\ question_embedding # None
    /\ Len(search_results) = 3
    /\ \E i \in EmbedCallsFor(2) : ~calls[i].ok
    /\ Ids(curated_results) = {1, 3}
    /\ \E i \in 1..3 : HasScore(search_results[i])
                        /\ search_results[i].id = 3

\* C8: a 200 response carrying total_found has filtered_count equal to
\* the number of sources and at most total_found, total_found equal to
\* the number of results the search returned, and sources drawn from the
\* search results without repetition.
C8_PayloadCounts ==
    (entry = "ask" /\ response.status = 200
     /\ "total_found" \in DOMAIN response.body)
        => LET b == response.body
           IN  /\ b.filtered_count = Len(b.sources)
               /\ b.filtered_count <= b.total_found
               /\ b.total_found = Len(search_results)
               /\ \A i \in 1..Len(b.sources) :
                     \E k \in 1..Len(search_results) :
                        b.sources[i] = search_results[k]
               /\ \A i, j \in 1..Len(b.sources) :
                     i # j => b.sources[i].id # b.sources[j].id

C8_Witness ==
    /\ entry = "ask"
    /\ response.status = 200
    /\ "total_found" \in DOMAIN response.body
    /\ response.body.total_found = 3
    /\ response.body.filtered_count = 2

\* C9: a failed search or generation call is the last outbound call of
\* its request and the only call to its provider, and the request ends
\* with status 500 and a body holding only an error.
C9_ProviderFailureIs500 ==
    \A i \in FailedCalls("search") \cup FailedCalls("generate") :
        /\ i = Len(calls)
        /\ Cardinality(CallsOf(calls[i].api)) = 1
        /\ pc = "done"
        /\ response.status = 500
        /\ DOMAIN response.body = {"error"}

C9_Witness ==
    /\ FailedCalls("generate") # {}
    /\ Len(curated_results) >= 1
    /\ response.status = 500

\* C10: a request in the pipeline makes its outbound calls in the order
\* search, question embedding, one embedding per result in rank order
\* (none if the question embedding failed), generation; each step is
\* reached only when all the calls before it have been made.
C10_CallOrder ==
    InPipeline
        => /\ Len(calls) <= Len(ExpectedCalls)
           /\ \A i \in 1..Len(calls) :
                 /\ calls[i].api = ExpectedCalls[i].api
                 /\ calls[i].text = ExpectedCalls[i].text
           /\ pc = "search" => Len(calls) = 0
           /\ pc = "embed_question" => Len(calls) = 1
           /\ pc = "embed_result" => Len(calls) = 1 + idx
           /\ pc = "compose" => Len(calls) = Len(ExpectedCalls) - 1
           /\ CallsOf("generate") # {} => Len(calls) = Len(ExpectedCalls)

C10_Witness ==
    /\ InPipeline
    /\ pc = "done"
    /\ Len(search_results) = 3
    /\ \E i \in EmbedCallsFor(2) : ~calls[i].ok
    /\ CallsOf("generate") # {}
    /\ Len(calls) = 6

====
